---- MODULE Spec2Model ----
(***************************************************************************)
(* Order-Invoice settlement engine of the WhatsApp business back office:   *)
(* order creation / update / status transition / cancellation over the     *)
(* product inventory (routes/orders.js, models/Order.js), and invoice      *)
(* creation / update / payment recording (routes/invoices.js,              *)
(* models/Invoice.js).                                                     *)
(*                                                                         *)
(* Every route handler is an async function; each `await` on the document  *)
(* store is a point where another request may run.  A handler is therefore *)
(* a sequence of steps, one per store access, executed by a worker.        *)
(*                                                                         *)
(* Money is held in paise (1/100 rupee).  Prices and charges of the        *)
(* requests are whole rupees and tax rates whole percents, so that         *)
(* taxable * rate / 100 is exact and \div 100 loses nothing.               *)
(*                                                                         *)
(* document.save() is modelled as mongoose performs it: the schema         *)
(* validators run on the in-memory document, the pre('save') hooks run,    *)
(* and the paths modified in memory are written over the stored document.  *)
(* The number a pre('save') hook assigns satisfies the `required` check of *)
(* the number field.                                                       *)
(***************************************************************************)
EXTENDS Integers, Sequences, FiniteSets, TLC

(* ------------------------------ bounds -------------------------------- *)
MaxWorkers == 2      \* concurrent requests in flight
MaxItems == 2        \* line items per order request
MaxRequests == 3     \* requests accepted in one behaviour
MaxClock == 1        \* calendar periods the clock can advance through

Workers == 1..MaxWorkers

(* ---------------------------- vocabulary ------------------------------ *)
Users == {"u1"}

OrderStatuses ==
    {"pending", "confirmed", "processing", "shipped", "delivered", "cancelled", "refunded"}

TerminalStatuses == {"delivered", "cancelled", "refunded"}

MissingId == 0

VARIABLES
    products,    \* Product collection: id -> document
    customers,   \* Customer collection: id -> document
    orders,      \* Order collection, in insertion order; _id = index
    invoices,    \* Invoice collection, in insertion order; _id = index
    clock,       \* calendar period of new Date()
    local,       \* per worker: position in its handler and in-memory documents
    response,    \* per worker: HTTP status of its last finished request
    requests,    \* number of requests accepted so far
    audit        \* history kept for the properties, read by no handler

vars == <<products, customers, orders, invoices, clock, local, response, requests, audit>>

(* --------------------------- initial store ---------------------------- *)
InitProducts ==
    [id \in {1, 2} |->
        IF id = 1
        THEN [user |-> "u1", sellingPrice |-> 50000, taxRate |-> 18,
              quantity |-> 3, trackInventory |-> TRUE]
        ELSE [user |-> "u1", sellingPrice |-> 20000, taxRate |-> 5,
              quantity |-> 3, trackInventory |-> TRUE]]

\* customer 1 belongs to owner u1, customer 2 to owner u2
InitCustomers ==
    [id \in {1, 2} |->
        [user |-> IF id = 1 THEN "u1" ELSE "u2", totalOrders |-> 0, totalSpent |-> 0,
         averageOrderValue |-> <<0, 1>>]]

NoCustomer == [user |-> "", totalOrders |-> 0, totalSpent |-> 0,
               averageOrderValue |-> <<0, 1>>]

NoProduct == [user |-> "", sellingPrice |-> 0, taxRate |-> 0,
              quantity |-> 0, trackInventory |-> FALSE]

NoArgs == [kind |-> "none"]

NoDoc == [kind |-> "none"]

IdleLocal(op, args) ==
    [pc |-> "idle", op |-> op, args |-> args, customer |-> NoCustomer,
     product |-> NoProduct, processedItems |-> <<>>, subtotal |-> 0,
     idx |-> 0, loaded |-> NoDoc, doc |-> NoDoc, pushed |-> <<>>, id |-> 0]

\* the on-hand quantity of every product
Quantities(ps) == [pid \in DOMAIN ps |-> ps[pid].quantity]

Init ==
    /\ products = InitProducts
    /\ customers = InitCustomers
    /\ orders = <<>>
    /\ invoices = <<>>
    /\ clock = 0
    /\ local = [w \in Workers |-> IdleLocal("none", NoArgs)]
    /\ response = [w \in Workers |-> 0]
    /\ requests = 0
    /\ audit = [acceptor |-> 1,
                before |-> [w \in Workers |-> Quantities(InitProducts)],
                dirty |-> [w \in Workers |-> FALSE],
                delivered |-> TRUE,
                reservedFrom |-> <<>>,
                untouched |-> <<>>,
                cancelling |-> <<>>]

\* the store when product 2 was created with inventory.trackInventory false
UntrackedProducts == [InitProducts EXCEPT ![2].trackInventory = FALSE]

UntrackedInit ==
    /\ products = UntrackedProducts
    /\ customers = InitCustomers
    /\ orders = <<>>
    /\ invoices = <<>>
    /\ clock = 0
    /\ local = [w \in Workers |-> IdleLocal("none", NoArgs)]
    /\ response = [w \in Workers |-> 0]
    /\ requests = 0
    /\ audit = [acceptor |-> 1,
                before |-> [w \in Workers |-> Quantities(UntrackedProducts)],
                dirty |-> [w \in Workers |-> FALSE],
                delivered |-> TRUE,
                reservedFrom |-> <<>>,
                untouched |-> <<>>,
                cancelling |-> <<>>]

(* ------------------------------ helpers ------------------------------- *)
\* Array.prototype.reduce((sum, x) => sum + x, 0)
RECURSIVE SumSeq(_)
SumSeq(s) == IF s = <<>> THEN 0 ELSE Head(s) + SumSeq(Tail(s))

\* a || b on numbers: the left operand unless it is falsy (0 or absent)
OrElse(a, b) == IF a # 0 THEN a ELSE b

\* Model.countDocuments({ user })
CountDocuments(coll, user) ==
    Cardinality({i \in 1..Len(coll) : coll[i].user = user})

\* the handler ends: the response is sent and the in-memory documents are dropped
Finish(w, code) ==
    /\ local' = [local EXCEPT ![w] = [IdleLocal(local[w].op, NoArgs) EXCEPT !.id = local[w].id]]
    /\ response' = [response EXCEPT ![w] = code]

\* a request is accepted by an idle worker
Accept(w) ==
    /\ local[w].pc = "idle"
    /\ requests < MaxRequests
    /\ requests' = requests + 1

Begin(w, op, args) == [IdleLocal(op, args) EXCEPT !.pc = "start"]

\* the request is answered by its first step
Reject(w, op, id, code) ==
    /\ local' = [local EXCEPT ![w] = [IdleLocal(op, NoArgs) EXCEPT !.id = id]]
    /\ response' = [response EXCEPT ![w] = code]

(* ------------------------- property history --------------------------- *)
\* a request starts: remember the quantities it found
AuditStart(w) ==
    audit' = [audit EXCEPT !.before[w] = Quantities(products), !.dirty[w] = FALSE,
                           !.acceptor = w]

\* worker w writes a product: every other request in flight has seen a
\* foreign write, and so has every order but the one w is cancelling
AuditWrite(w) ==
    audit' = [audit EXCEPT
        !.dirty = [v \in Workers |-> IF v = w THEN @[v] ELSE TRUE],
        !.untouched = [o \in 1..Len(@) |->
            @[o] /\ local[w].op = "cancelOrder" /\ local[w].id = o]]

\* worker w has inserted its order
AuditInsert(w) ==
    audit' = [audit EXCEPT
        !.reservedFrom = Append(@, audit.before[w]),
        !.untouched = Append(@, ~audit.dirty[w]),
        !.cancelling = Append(@, FALSE)]

\* worker w starts to cancel order o: a cancellation that follows another
\* one of the same order finds the products already written by the first
AuditCancel(w, o) ==
    audit' = [audit EXCEPT
        !.before[w] = Quantities(products), !.dirty[w] = FALSE, !.acceptor = w,
        !.untouched[o] = @ /\ ~audit.cancelling[o],
        !.cancelling[o] = TRUE]

\* new Date(): the requests accepted so far serve as the time stamp
Now == requests + 1

\* Order.findOne({ _id, user })
OrderFound(id, user) == id \in 1..Len(orders) /\ orders[id].user = user

\* Number.prototype.toString(): the decimal digits of n >= 0
RECURSIVE ToDigits(_)
ToDigits(n) == IF n < 10 THEN <<n>> ELSE ToDigits(n \div 10) \o <<n % 10>>

\* String.prototype.padStart(len, '0') on a digit string
RECURSIVE PadStart(_, _)
PadStart(digits, len) ==
    IF Len(digits) >= len THEN digits ELSE PadStart(<<0>> \o digits, len)

(* ---------------------------- createOrder ----------------------------- *)
\* the line priced with the tax taken on the gross amount, before the discount
ProcessItemTaxOnGross(item, product, pid) ==
    LET unitPrice == OrElse(item.unitPrice, product.sellingPrice)
        discount == OrElse(item.discount, 0)
        taxRate == OrElse(item.taxRate, product.taxRate)
        taxableAmount == (unitPrice * item.quantity) - discount
        taxAmount == ((unitPrice * item.quantity) * taxRate) \div 100
        itemTotal == taxableAmount + taxAmount
    IN  [product |-> pid, quantity |-> item.quantity, unitPrice |-> unitPrice,
         discount |-> discount, taxRate |-> taxRate, taxAmount |-> taxAmount,
         total |-> itemTotal]

\* router.post('/') lines 574-590: pricing of one line item
ProcessItem(item, product, pid) ==
    LET unitPrice == OrElse(item.unitPrice, product.sellingPrice)
        discount == OrElse(item.discount, 0)
        taxRate == OrElse(item.taxRate, product.taxRate)
        taxableAmount == (unitPrice * item.quantity) - discount
        taxAmount == (taxableAmount * taxRate) \div 100
        itemTotal == taxableAmount + taxAmount
    IN  [product |-> pid, quantity |-> item.quantity, unitPrice |-> unitPrice,
         discount |-> discount, taxRate |-> taxRate, taxAmount |-> taxAmount,
         total |-> itemTotal]

\* new Order({...}) lines 613-626
NewOrder(args, processedItems, subtotal) ==
    [user |-> args.user,
     customer |-> args.customer,
     orderNumber |-> <<>>,
     items |-> processedItems,
     status |-> "pending",
     pricing |->
        [subtotal |-> subtotal,
         totalDiscount |-> SumSeq([i \in 1..Len(args.items) |-> OrElse(args.items[i].discount, 0)]),
         totalTax |-> SumSeq([i \in 1..Len(processedItems) |-> processedItems[i].taxAmount]),
         shipping |-> OrElse(args.shipping, 0),
         packaging |-> OrElse(args.packaging, 0),
         total |-> subtotal + OrElse(args.shipping, 0) + OrElse(args.packaging, 0),
         amountPaid |-> OrElse(args.amountPaid, 0),
         amountDue |-> subtotal + OrElse(args.shipping, 0) - OrElse(args.amountPaid, 0)],
     history |-> <<>>,
     actualDelivery |-> -1,
     cancelledAt |-> -1]

\* orderItemSchema / orderSchema validators
OrderValid(o) ==
    /\ \A i \in 1..Len(o.items) : o.items[i].quantity >= 1
    /\ o.status \in OrderStatuses

\* productSchema.inventory.quantity: min 0
ProductValid(product) == product.quantity >= 0

\* the hook without its amount-due line
AmountDueHookMissing(o) == o

\* orderSchema.pre('save'), second part: amount due
AmountDueHook(o) ==
    [o EXCEPT !.pricing.amountDue = o.pricing.total - o.pricing.amountPaid]

\* the hook numbering from the count itself
OrderNumberHookFromZero(o, count) ==
    IF o.orderNumber = <<>>
    THEN [o EXCEPT !.orderNumber = <<"ORD", clock, PadStart(ToDigits(count), 4)>>]
    ELSE o

\* orderSchema.pre('save'), first part: ORD/YYMM/NNNN from the document count
OrderNumberHook(o, count) ==
    IF o.orderNumber = <<>>
    THEN [o EXCEPT !.orderNumber = <<"ORD", clock, PadStart(ToDigits(count + 1), 4)>>]
    ELSE o

\* the collection without the unique index
OrderNumberUnchecked(number) == TRUE

\* unique index on orderNumber
OrderNumberFree(number) ==
    \A i \in 1..Len(orders) : orders[i].orderNumber # number

\* after line idx of the create loop
CreateAfterItem(l) ==
    IF l.idx < Len(l.args.items)
    THEN [l EXCEPT !.pc = "createItem", !.idx = l.idx + 1]
    ELSE [l EXCEPT !.pc = "createOrderSave"]

\* lines 556-572: Customer.findOne({ _id, user })
CreateOrderStart(w, args) ==
    /\ Accept(w)
    /\ IF args.customer \in DOMAIN customers /\ customers[args.customer].user = args.user
       THEN /\ local' = [local EXCEPT ![w] =
                    [Begin(w, "createOrder", args) EXCEPT
                        !.pc = "createItem", !.idx = 1,
                        !.customer = customers[args.customer]]]
            /\ UNCHANGED response
       ELSE Reject(w, "createOrder", 0, 400)
    /\ AuditStart(w)
    /\ UNCHANGED <<products, customers, orders, invoices, clock>>

\* line 608: product.inventory.quantity -= item.quantity
Reserve(product, item) == [product EXCEPT !.quantity = @ - item.quantity]

\* lines 578-607: Product.findById, pricing, in-memory decrement
CreateOrderItem(w) ==
    LET l == local[w]
        item == l.args.items[l.idx]
    IN  /\ l.pc = "createItem"
        /\ IF item.product \notin DOMAIN products
           THEN Finish(w, 400)
           ELSE LET product == products[item.product]
                    processed == ProcessItem(item, product, item.product)
                    l2 == [l EXCEPT !.processedItems = Append(@, processed),
                                    !.subtotal = @ + processed.total]
                IN  /\ local' = [local EXCEPT ![w] =
                            IF product.trackInventory
                            THEN [l2 EXCEPT !.pc = "createProductSave",
                                            !.product = Reserve(product, item)]
                            ELSE CreateAfterItem(l2)]
                    /\ UNCHANGED response
        /\ UNCHANGED <<products, customers, orders, invoices, clock, requests, audit>>

\* lines 608-609: product.save()
CreateOrderProductSave(w) ==
    LET l == local[w]
        pid == l.args.items[l.idx].product
    IN  /\ l.pc = "createProductSave"
        /\ IF ProductValid(l.product)
           THEN /\ products' = [products EXCEPT ![pid].quantity = l.product.quantity]
                /\ local' = [local EXCEPT ![w] = CreateAfterItem(l)]
                /\ AuditWrite(w)
                /\ UNCHANGED response
           ELSE /\ Finish(w, 500)
                /\ UNCHANGED <<products, audit>>
        /\ UNCHANGED <<customers, orders, invoices, clock, requests>>

\* lines 613-628, order.save(): validation, then the hook's countDocuments
CreateOrderSave(w) ==
    LET l == local[w]
        order == NewOrder(l.args, l.processedItems, l.subtotal)
    IN  /\ l.pc = "createOrderSave"
        /\ IF OrderValid(order)
           THEN /\ local' = [local EXCEPT ![w] =
                        [l EXCEPT !.pc = "createOrderInsert",
                                  !.doc = AmountDueHook(OrderNumberHook(order,
                                              CountDocuments(orders, order.user)))]]
                /\ UNCHANGED response
           ELSE Finish(w, 500)
        /\ UNCHANGED <<products, customers, orders, invoices, clock, requests, audit>>

\* order.save(): the insert, subject to the unique index on orderNumber
CreateOrderInsert(w) ==
    LET l == local[w]
    IN  /\ l.pc = "createOrderInsert"
        /\ IF OrderNumberFree(l.doc.orderNumber)
           THEN /\ orders' = Append(orders, l.doc)
                /\ local' = [local EXCEPT ![w] =
                        [l EXCEPT !.pc = "createCustomerSave", !.id = Len(orders) + 1]]
                /\ AuditInsert(w)
                /\ UNCHANGED response
           ELSE /\ Finish(w, 500)
                /\ UNCHANGED <<orders, audit>>
        /\ UNCHANGED <<products, customers, invoices, clock, requests>>

\* customerSchema.pre('save')
AverageHook(c) ==
    IF c.totalOrders > 0 /\ c.totalSpent > 0
    THEN [c EXCEPT !.averageOrderValue = <<c.totalSpent, c.totalOrders>>]
    ELSE c

\* lines 630-638: customer.save() and the 201 response
CreateOrderCustomerSave(w) ==
    LET l == local[w]
        c == AverageHook([l.customer EXCEPT
                !.totalOrders = @ + 1,
                !.totalSpent = @ + l.doc.pricing.total])
    IN  /\ l.pc = "createCustomerSave"
        /\ customers' = [customers EXCEPT ![l.args.customer] = c]
        /\ Finish(w, 201)
        /\ UNCHANGED <<products, orders, invoices, clock, requests, audit>>

(* ------------------------- order document save ------------------------ *)
\* order.save() of a loaded document: the paths whose in-memory value differs
\* from the loaded one are $set, the pushed history entries are $push-ed
SaveOrder(stored, loaded, doc, pushed) ==
    [stored EXCEPT
        !.status = IF doc.status # loaded.status THEN doc.status ELSE @,
        !.pricing = [f \in DOMAIN stored.pricing |->
                        IF doc.pricing[f] # loaded.pricing[f]
                        THEN doc.pricing[f] ELSE stored.pricing[f]],
        !.history = @ \o pushed,
        !.actualDelivery = IF doc.actualDelivery # loaded.actualDelivery
                           THEN doc.actualDelivery ELSE @,
        !.cancelledAt = IF doc.cancelledAt # loaded.cancelledAt
                        THEN doc.cancelledAt ELSE @]

\* a failed send answers the request with an error
NotificationFailureAnswered(code, delivered) == IF delivered THEN code ELSE 500

\* the try/catch around the customer message, lines 728-737, 805-814 and
\* routes/invoices.js lines 262-269: a failed send is logged and the handler
\* goes on to the response it was about to give
AfterNotification(code, delivered) == code

\* whatsappService.sendOrderStatusUpdate / sendTextMessage by worker w: the
\* outcome of the send, which the request carries from its start
Notify(w) == audit' = [audit EXCEPT !.delivered = local[w].args.delivered]

\* await order.save() of the worker's loaded order, then the response
OrderSaveStep(w, code) ==
    LET l == local[w]
        doc == AmountDueHook(l.doc)
    IN  /\ IF OrderValid(doc)
           THEN /\ orders' = [orders EXCEPT ![l.id] = SaveOrder(@, l.loaded, doc, l.pushed)]
                /\ Finish(w, code)
           ELSE /\ Finish(w, 500)
                /\ UNCHANGED orders

(* ----------------------- transitionOrderStatus ------------------------ *)
\* router.patch('/:id/status') lines 685-723
TransitionStart(w, args) ==
    /\ Accept(w)
    /\ IF OrderFound(args.id, args.user)
       THEN LET order == orders[args.id]
                previousStatus == order.status
                pushed == IF args.status # previousStatus
                          THEN <<[status |-> args.status, timestamp |-> Now]>>
                          ELSE <<>>
                doc == [order EXCEPT
                            !.status = args.status,
                            !.actualDelivery = IF args.status = "delivered" THEN Now ELSE @]
            IN  /\ local' = [local EXCEPT ![w] =
                        [Begin(w, "transitionOrderStatus", args) EXCEPT
                            !.pc = "transitionSave", !.id = args.id,
                            !.loaded = order, !.doc = doc, !.pushed = pushed]]
                /\ UNCHANGED response
       ELSE Reject(w, "transitionOrderStatus", args.id, 404)
    /\ AuditStart(w)
    /\ UNCHANGED <<products, customers, orders, invoices, clock>>

\* line 725, the notification of lines 728-737 and the response
TransitionSave(w) ==
    /\ local[w].pc = "transitionSave"
    /\ OrderSaveStep(w, AfterNotification(200, local[w].args.delivered))
    /\ IF OrderValid(AmountDueHook(local[w].doc)) THEN Notify(w) ELSE UNCHANGED audit
    /\ UNCHANGED <<products, customers, invoices, clock, requests>>

(* ---------------------------- updateOrder ----------------------------- *)
\* Object.assign(order, req.body), line 658
AssignBody(order, body) ==
    [order EXCEPT
        !.status = IF body.status # "" THEN body.status ELSE @,
        !.pricing = IF body.hasPricing THEN body.pricing ELSE @]

\* router.put('/:id') lines 648-658
UpdateOrderStart(w, args) ==
    /\ Accept(w)
    /\ IF OrderFound(args.id, args.user)
       THEN /\ local' = [local EXCEPT ![w] =
                    [Begin(w, "updateOrder", args) EXCEPT
                        !.pc = "updateSave", !.id = args.id,
                        !.loaded = orders[args.id],
                        !.doc = AssignBody(orders[args.id], args.body)]]
            /\ UNCHANGED response
       ELSE Reject(w, "updateOrder", args.id, 404)
    /\ AuditStart(w)
    /\ UNCHANGED <<products, customers, orders, invoices, clock>>

\* line 659 and the response
UpdateOrderSave(w) ==
    /\ local[w].pc = "updateSave"
    /\ OrderSaveStep(w, 200)
    /\ UNCHANGED <<products, customers, invoices, clock, requests, audit>>

(* ---------------------------- cancelOrder ----------------------------- *)
\* after line idx of the restore loop
CancelAfterItem(l) ==
    IF l.idx < Len(l.doc.items)
    THEN [l EXCEPT !.pc = "cancelItem", !.idx = l.idx + 1]
    ELSE [l EXCEPT !.pc = "cancelSave"]

\* the guard that lets a cancelled order be cancelled again
NotCancellableDeliveredOnly == {"delivered"}

\* line 786: the statuses an order cannot be cancelled from
NotCancellable == {"delivered", "cancelled"}

\* router.post('/:id/cancel') lines 775-788
CancelOrderStart(w, args) ==
    /\ Accept(w)
    /\ IF ~OrderFound(args.id, args.user)
       THEN Reject(w, "cancelOrder", args.id, 404) /\ AuditStart(w)
       ELSE IF orders[args.id].status \in NotCancellable
       THEN Reject(w, "cancelOrder", args.id, 400) /\ AuditStart(w)
       ELSE /\ local' = [local EXCEPT ![w] =
                    [Begin(w, "cancelOrder", args) EXCEPT
                        !.pc = "cancelItem", !.id = args.id, !.idx = 1,
                        !.loaded = orders[args.id], !.doc = orders[args.id]]]
            /\ AuditCancel(w, args.id)
            /\ UNCHANGED response
    /\ UNCHANGED <<products, customers, orders, invoices, clock>>

\* the restore that puts back one unit whatever the line quantity
RestoreOneUnit(product, item) == [product EXCEPT !.quantity = @ + 1]

\* line 794: product.inventory.quantity += item.quantity
Restore(product, item) == [product EXCEPT !.quantity = @ + item.quantity]

\* lines 791-794: Product.findById and the in-memory restore
CancelOrderItem(w) ==
    LET l == local[w]
        item == l.doc.items[l.idx]
    IN  /\ l.pc = "cancelItem"
        /\ local' = [local EXCEPT ![w] =
                IF item.product \in DOMAIN products /\ products[item.product].trackInventory
                THEN [l EXCEPT !.pc = "cancelProductSave",
                               !.product = Restore(products[item.product], item)]
                ELSE CancelAfterItem(l)]
        /\ UNCHANGED <<products, customers, orders, invoices, clock, response, requests, audit>>

\* line 795: product.save()
CancelOrderProductSave(w) ==
    LET l == local[w]
        pid == l.doc.items[l.idx].product
    IN  /\ l.pc = "cancelProductSave"
        /\ IF ProductValid(l.product)
           THEN /\ products' = [products EXCEPT ![pid].quantity = l.product.quantity]
                /\ local' = [local EXCEPT ![w] = CancelAfterItem(l)]
                /\ AuditWrite(w)
                /\ UNCHANGED response
           ELSE /\ Finish(w, 500)
                /\ UNCHANGED <<products, audit>>
        /\ UNCHANGED <<customers, orders, invoices, clock, requests>>

\* lines 799-802, the notification of lines 805-814 and the response
CancelOrderSave(w) ==
    /\ local[w].pc = "cancelSave"
    /\ LET l == local[w]
           doc == [l.doc EXCEPT !.status = "cancelled", !.cancelledAt = Now]
       IN  IF OrderValid(AmountDueHook(doc))
           THEN /\ orders' = [orders EXCEPT ![l.id] =
                        SaveOrder(@, l.loaded, AmountDueHook(doc), l.pushed)]
                /\ Notify(w)
                /\ Finish(w, AfterNotification(200, l.args.delivered))
           ELSE /\ Finish(w, 500)
                /\ UNCHANGED <<orders, audit>>
    /\ UNCHANGED <<products, customers, invoices, clock, requests>>

(* --------------------------- product routes --------------------------- *)
\* Product.findOne({ _id, user })
ProductFound(id, user) == id \in DOMAIN products /\ products[id].user = user

\* Product.findOneAndUpdate(filter, req.body) of routes/products.js lines
\* 119-123: the body's paths are $set, no validator runs
ApplyProductUpdate(product, body) == [product EXCEPT !.quantity = body.quantity]

\* router.put('/:id') of routes/products.js, lines 117-133
UpdateProductStart(w, args) ==
    /\ Accept(w)
    /\ IF ProductFound(args.id, args.user)
       THEN /\ products' = [products EXCEPT ![args.id] = ApplyProductUpdate(@, args.body)]
            /\ Reject(w, "updateProduct", args.id, 200)
       ELSE /\ Reject(w, "updateProduct", args.id, 404)
            /\ UNCHANGED products
    /\ AuditStart(w)
    /\ UNCHANGED <<customers, orders, invoices, clock>>

\* the switch of routes/products.js lines 170-180
ApplyOperation(product, operation, quantity) ==
    CASE operation = "set" -> [product EXCEPT !.quantity = quantity]
      [] operation = "add" -> [product EXCEPT !.quantity = @ + quantity]
      [] operation = "subtract" ->
            [product EXCEPT !.quantity =
                IF product.quantity - quantity > 0 THEN product.quantity - quantity ELSE 0]
      [] OTHER -> product

\* router.patch('/:id/inventory') of routes/products.js, lines 157-184
UpdateInventoryStart(w, args) ==
    /\ Accept(w)
    /\ IF ProductFound(args.id, args.user)
       THEN /\ local' = [local EXCEPT ![w] =
                    [Begin(w, "updateInventory", args) EXCEPT
                        !.pc = "inventorySave", !.id = args.id,
                        !.product = ApplyOperation(products[args.id],
                                                   args.operation, args.quantity)]]
            /\ UNCHANGED response
       ELSE Reject(w, "updateInventory", args.id, 404)
    /\ AuditStart(w)
    /\ UNCHANGED <<products, customers, orders, invoices, clock>>

\* routes/products.js lines 186-188: product.save() and the response
UpdateInventorySave(w) ==
    LET l == local[w]
    IN  /\ l.pc = "inventorySave"
        /\ IF ProductValid(l.product)
           THEN /\ products' = [products EXCEPT ![l.id].quantity = l.product.quantity]
                /\ AuditWrite(w)
                /\ Finish(w, 200)
           ELSE /\ Finish(w, 500)
                /\ UNCHANGED <<products, audit>>
        /\ UNCHANGED <<customers, orders, invoices, clock, requests>>

(* --------------------------- amount in words -------------------------- *)
Ones ==
    <<"One", "Two", "Three", "Four", "Five", "Six", "Seven", "Eight", "Nine", "Ten",
      "Eleven", "Twelve", "Thirteen", "Fourteen", "Fifteen", "Sixteen", "Seventeen",
      "Eighteen", "Nineteen">>

Tens ==
    <<"", "Twenty", "Thirty", "Forty", "Fifty", "Sixty", "Seventy", "Eighty", "Ninety">>

\* numToWords, Invoice.js lines 240-247; a string is the sequence of its words
RECURSIVE NumToWords(_)
NumToWords(num) ==
    IF num = 0 THEN <<>>
    ELSE IF num < 20 THEN <<Ones[num]>>
    ELSE IF num < 100
        THEN <<Tens[num \div 10]>> \o (IF num % 10 # 0 THEN <<Ones[num % 10]>> ELSE <<>>)
    ELSE IF num < 1000
        THEN <<Ones[num \div 100], "Hundred">>
             \o (IF num % 100 # 0 THEN NumToWords(num % 100) ELSE <<>>)
    ELSE IF num < 100000
        THEN NumToWords(num \div 1000) \o <<"Thousand">>
             \o (IF num % 1000 # 0 THEN NumToWords(num % 1000) ELSE <<>>)
    ELSE IF num < 10000000
        THEN NumToWords(num \div 100000) \o <<"Lakh">>
             \o (IF num % 100000 # 0 THEN NumToWords(num % 100000) ELSE <<>>)
    ELSE NumToWords(num \div 10000000) \o <<"Crore">>
         \o (IF num % 10000000 # 0 THEN NumToWords(num % 10000000) ELSE <<>>)

\* Math.round of a non-negative tenths/10: halves go up
RoundTenths(tenths) == (tenths + 5) \div 10

\* numberToWords, Invoice.js lines 234-258, of an amount >= 0 given as its
\* whole rupees and the thousandths of a rupee beyond them:
\* rupees = Math.floor(amount), paise = Math.round((amount - rupees) * 100)
NumberToWords(amount) ==
    LET rupees == amount.rupees
        paise == RoundTenths(amount.thousandths)
    IN  NumToWords(rupees) \o <<"Rupees">>
        \o (IF paise > 0 THEN <<"and">> \o NumToWords(paise) \o <<"Paise">> ELSE <<>>)

\* an amount of paise as whole rupees and thousandths of a rupee
Thousandths(paise) == [rupees |-> paise \div 100, thousandths |-> (paise % 100) * 10]

\* a call of numberToWords(amount) by worker w: the argument and the string
\* returned are the worker's locals
NumberToWordsCall(w, amount) ==
    /\ Accept(w)
    /\ local' = [local EXCEPT ![w] =
            [IdleLocal("numberToWords", [amount |-> amount]) EXCEPT
                !.doc = [words |-> NumberToWords(amount)]]]
    /\ AuditStart(w)
    /\ UNCHANGED <<products, customers, orders, invoices, clock, response>>

(* ------------------------------ invoices ------------------------------ *)
\* invoiceSchema.pre('save'), Invoice.js lines 260-265
AmountInWordsHook(inv) ==
    IF inv.pricing.total # 0
    THEN [inv EXCEPT !.pricing.amountInWords = NumberToWords(Thousandths(inv.pricing.total))]
    ELSE inv

\* invoiceSchema.pre('save'), Invoice.js lines 220-231: INV/YYMMDD/NNNN
InvoiceNumberHook(inv, count) ==
    IF inv.invoiceNumber = <<>>
    THEN [inv EXCEPT !.invoiceNumber = <<"INV", clock, PadStart(ToDigits(count + 1), 4)>>]
    ELSE inv

\* unique index on invoiceNumber
InvoiceNumberFree(number) ==
    \A i \in 1..Len(invoices) : invoices[i].invoiceNumber # number

InvoiceStatuses == {"draft", "sent", "viewed", "paid", "overdue", "cancelled"}

PaymentStatuses == {"pending", "partial", "paid", "overdue", "cancelled"}

\* invoiceItemSchema / invoiceSchema validators
InvoiceValid(inv) ==
    /\ \A i \in 1..Len(inv.items) : inv.items[i].quantity >= 1
    /\ inv.status \in InvoiceStatuses
    /\ inv.paymentDetails.status \in PaymentStatuses

\* Invoice.findOne({ _id, user })
InvoiceFound(id, user) == id \in 1..Len(invoices) /\ invoices[id].user = user

\* new Invoice(req.body) of the manual route, with the schema defaults
ManualInvoice(args) ==
    [user |-> args.user,
     customer |-> args.customer,
     order |-> 0,
     invoiceNumber |-> <<>>,
     items |-> <<>>,
     pricing |-> [subtotal |-> args.total, totalDiscount |-> 0, totalTax |-> 0,
                  shipping |-> 0, total |-> args.total, amountInWords |-> <<>>],
     paymentDetails |-> [status |-> "pending", paidAmount |-> 0, paidDate |-> -1,
                         dueDate |-> clock + args.dueIn, payments |-> <<>>],
     status |-> "draft",
     issueDate |-> clock,
     dueDate |-> clock + args.dueIn,
     paidDate |-> -1,
     pdf |-> FALSE]

\* InvoiceService.createInvoiceFromOrder, invoiceService.js lines 18-80
InvoiceFromOrder(order, id, user, options) ==
    [user |-> user,
     customer |-> order.customer,
     order |-> id,
     invoiceNumber |-> <<>>,
     items |-> [i \in 1..Len(order.items) |->
                    [product |-> order.items[i].product,
                     quantity |-> order.items[i].quantity,
                     unitPrice |-> order.items[i].unitPrice,
                     discount |-> OrElse(order.items[i].discount, 0),
                     taxRate |-> OrElse(order.items[i].taxRate, 0),
                     taxAmount |-> OrElse(order.items[i].taxAmount, 0),
                     total |-> order.items[i].total]],
     pricing |-> [subtotal |-> order.pricing.subtotal,
                  totalDiscount |-> order.pricing.totalDiscount,
                  totalTax |-> order.pricing.totalTax,
                  shipping |-> OrElse(order.pricing.shipping, 0),
                  total |-> order.pricing.total,
                  amountInWords |-> <<>>],
     paymentDetails |-> [status |-> "pending", paidAmount |-> 0, paidDate |-> -1,
                         dueDate |-> clock + OrElse(options.paymentTerms, 30),
                         payments |-> <<>>],
     status |-> "draft",
     issueDate |-> clock,
     dueDate |-> clock + OrElse(options.paymentTerms, 30),
     paidDate |-> -1,
     pdf |-> FALSE]

\* invoice.save() of a loaded document: modified paths are $set, pushed
\* payment records are $push-ed
SaveInvoice(stored, loaded, doc, pushed) ==
    [stored EXCEPT
        !.status = IF doc.status # loaded.status THEN doc.status ELSE @,
        !.paidDate = IF doc.paidDate # loaded.paidDate THEN doc.paidDate ELSE @,
        !.pdf = IF doc.pdf # loaded.pdf THEN doc.pdf ELSE @,
        !.pricing.amountInWords =
            IF doc.pricing.amountInWords # loaded.pricing.amountInWords
            THEN doc.pricing.amountInWords ELSE @,
        !.paymentDetails =
            [stored.paymentDetails EXCEPT
                !.status = IF doc.paymentDetails.status # loaded.paymentDetails.status
                           THEN doc.paymentDetails.status ELSE @,
                !.paidAmount = IF doc.paymentDetails.paidAmount # loaded.paymentDetails.paidAmount
                               THEN doc.paymentDetails.paidAmount ELSE @,
                !.paidDate = IF doc.paymentDetails.paidDate # loaded.paymentDetails.paidDate
                             THEN doc.paymentDetails.paidDate ELSE @,
                !.payments = @ \o pushed]]

\* router.post('/') of invoices.js, lines 139-156
CreateInvoiceStart(w, args) ==
    /\ Accept(w)
    /\ IF args.customer \in DOMAIN customers /\ customers[args.customer].user = args.user
       THEN /\ local' = [local EXCEPT ![w] =
                    [Begin(w, "createInvoice", args) EXCEPT
                        !.pc = "invoiceSave", !.doc = ManualInvoice(args)]]
            /\ UNCHANGED response
       ELSE Reject(w, "createInvoice", 0, 400)
    /\ AuditStart(w)
    /\ UNCHANGED <<products, customers, orders, invoices, clock>>

\* router.post('/:id/invoice') of orders.js, lines 748-761
CreateInvoiceFromOrderStart(w, args) ==
    /\ Accept(w)
    /\ IF OrderFound(args.id, args.user)
       THEN /\ local' = [local EXCEPT ![w] =
                    [Begin(w, "createInvoiceFromOrder", args) EXCEPT
                        !.pc = "invoiceSave",
                        !.doc = InvoiceFromOrder(orders[args.id], args.id, args.user, args)]]
            /\ UNCHANGED response
       ELSE Reject(w, "createInvoiceFromOrder", args.id, 404)
    /\ AuditStart(w)
    /\ UNCHANGED <<products, customers, orders, invoices, clock>>

\* invoice.save() of a new invoice: validation, then the hook's countDocuments
InvoiceSave(w) ==
    LET l == local[w]
    IN  /\ l.pc = "invoiceSave"
        /\ IF InvoiceValid(l.doc)
           THEN /\ local' = [local EXCEPT ![w] =
                        [l EXCEPT !.pc = "invoiceInsert",
                                  !.doc = AmountInWordsHook(InvoiceNumberHook(l.doc,
                                              CountDocuments(invoices, l.doc.user)))]]
                /\ UNCHANGED response
           ELSE Finish(w, 500)
        /\ UNCHANGED <<products, customers, orders, invoices, clock, requests, audit>>

\* invoice.save(): the insert, subject to the unique index on invoiceNumber
InvoiceInsert(w) ==
    LET l == local[w]
    IN  /\ l.pc = "invoiceInsert"
        /\ IF InvoiceNumberFree(l.doc.invoiceNumber)
           THEN /\ invoices' = Append(invoices, l.doc)
                /\ local' = [local EXCEPT ![w] =
                        [IdleLocal(l.op, NoArgs) EXCEPT !.id = Len(invoices) + 1]]
                /\ response' = [response EXCEPT ![w] = 201]
           ELSE /\ Finish(w, 500)
                /\ UNCHANGED invoices
        /\ UNCHANGED <<products, customers, orders, clock, requests, audit>>

\* Invoice.findOneAndUpdate(filter, req.body): the body's paths are $set,
\* no validator and no hook runs
ApplyUpdate(inv, body) ==
    [inv EXCEPT
        !.pricing = IF body.hasPricing THEN body.pricing ELSE @,
        !.status = IF body.status # "" THEN body.status ELSE @]

\* router.put('/:id') of invoices.js, lines 169-184
UpdateInvoiceStart(w, args) ==
    /\ Accept(w)
    /\ IF InvoiceFound(args.id, args.user)
       THEN /\ invoices' = [invoices EXCEPT ![args.id] = ApplyUpdate(@, args.body)]
            /\ IF args.body.hasPricing
               THEN /\ local' = [local EXCEPT ![w] =
                            [Begin(w, "updateInvoice", args) EXCEPT
                                !.pc = "generatePdf", !.id = args.id]]
                    /\ UNCHANGED response
               ELSE Reject(w, "updateInvoice", args.id, 200)
       ELSE /\ Reject(w, "updateInvoice", args.id, 404)
            /\ UNCHANGED invoices
    /\ AuditStart(w)
    /\ UNCHANGED <<products, customers, orders, clock>>

\* InvoiceService.generatePDF, invoiceService.js lines 88-96: Invoice.findById
GeneratePdfFind(w) ==
    LET l == local[w]
    IN  /\ l.pc = "generatePdf"
        /\ local' = [local EXCEPT ![w] =
                [l EXCEPT !.pc = "generatePdfSave",
                          !.loaded = invoices[l.id],
                          !.doc = [invoices[l.id] EXCEPT !.pdf = TRUE]]]
        /\ UNCHANGED <<products, customers, orders, invoices, clock, response, requests, audit>>

\* await invoice.save() of the worker's loaded invoice, then the response
InvoiceSaveStep(w, code) ==
    LET l == local[w]
        doc == AmountInWordsHook(l.doc)
    IN  /\ IF InvoiceValid(doc)
           THEN /\ invoices' = [invoices EXCEPT ![l.id] = SaveInvoice(@, l.loaded, doc, l.pushed)]
                /\ Finish(w, code)
           ELSE /\ Finish(w, 500)
                /\ UNCHANGED invoices

\* generatePDF lines 134-144: invoice.pdf = ..., invoice.save(); then
\* router.put('/:id') line 186
GeneratePdfSave(w) ==
    /\ local[w].pc = "generatePdfSave"
    /\ InvoiceSaveStep(w, 200)
    /\ UNCHANGED <<products, customers, orders, clock, requests, audit>>

\* router.post('/:id/payment') lines 246-257: paid amount and status
ApplyPayment(inv, amount) ==
    LET paidAmount == inv.paymentDetails.paidAmount + amount
    IN  IF paidAmount >= inv.pricing.total
        THEN [inv EXCEPT !.paymentDetails.paidAmount = paidAmount,
                         !.paymentDetails.status = "paid",
                         !.paymentDetails.paidDate = Now,
                         !.paidDate = Now,
                         !.status = "paid"]
        ELSE [inv EXCEPT !.paymentDetails.paidAmount = paidAmount,
                         !.paymentDetails.status = "partial"]

\* router.post('/:id/payment') lines 223-257
RecordPaymentStart(w, args) ==
    /\ Accept(w)
    /\ IF InvoiceFound(args.id, args.user)
       THEN /\ local' = [local EXCEPT ![w] =
                    [Begin(w, "recordPayment", args) EXCEPT
                        !.pc = "paymentSave", !.id = args.id,
                        !.loaded = invoices[args.id],
                        !.doc = ApplyPayment(invoices[args.id], args.amount),
                        !.pushed = <<[amount |-> args.amount, date |-> Now]>>]]
            /\ UNCHANGED response
       ELSE Reject(w, "recordPayment", args.id, 404)
    /\ AuditStart(w)
    /\ UNCHANGED <<products, customers, orders, invoices, clock>>

\* line 259, the notification of lines 262-269 and the response
RecordPaymentSave(w) ==
    /\ local[w].pc = "paymentSave"
    /\ InvoiceSaveStep(w, AfterNotification(200, local[w].args.delivered))
    /\ IF InvoiceValid(AmountInWordsHook(local[w].doc)) THEN Notify(w) ELSE UNCHANGED audit
    /\ UNCHANGED <<products, customers, orders, clock, requests>>

(* ---------------------------- send invoice ---------------------------- *)
\* router.post('/:id/send') of routes/invoices.js, lines 194-203
SendInvoiceStart(w, args) ==
    /\ Accept(w)
    /\ IF InvoiceFound(args.id, args.user)
       THEN /\ local' = [local EXCEPT ![w] =
                    [Begin(w, "sendInvoice", args) EXCEPT !.pc = "sendFind", !.id = args.id]]
            /\ UNCHANGED response
       ELSE Reject(w, "sendInvoice", args.id, 404)
    /\ AuditStart(w)
    /\ UNCHANGED <<products, customers, orders, invoices, clock>>

\* sendInvoicePDF, invoiceService.js lines 468-475: Invoice.findById and the
\* test for an existing PDF
SendInvoiceFind(w) ==
    LET l == local[w]
    IN  /\ l.pc = "sendFind"
        /\ local' = [local EXCEPT ![w] =
                [l EXCEPT !.pc = IF invoices[l.id].pdf THEN "sendMessage" ELSE "sendGenerate",
                          !.loaded = invoices[l.id],
                          !.doc = invoices[l.id]]]
        /\ UNCHANGED <<products, customers, orders, invoices, clock, response, requests, audit>>

\* line 476: generatePDF loads the invoice itself, lines 88-96
SendInvoiceGenerate(w) ==
    LET l == local[w]
    IN  /\ l.pc = "sendGenerate"
        /\ local' = [local EXCEPT ![w] =
                [l EXCEPT !.pc = "sendGenerateSave",
                          !.loaded = invoices[l.id],
                          !.doc = [invoices[l.id] EXCEPT !.pdf = TRUE]]]
        /\ UNCHANGED <<products, customers, orders, invoices, clock, response, requests, audit>>

\* generatePDF lines 134-143: invoice.pdf = ..., invoice.save() in the
\* stream's finish callback; a save that fails there settles nothing
SendInvoiceGenerateSave(w) ==
    LET l == local[w]
        doc == AmountInWordsHook(l.doc)
    IN  /\ l.pc = "sendGenerateSave"
        /\ IF InvoiceValid(doc)
           THEN /\ invoices' = [invoices EXCEPT ![l.id] = SaveInvoice(@, l.loaded, doc, l.pushed)]
                /\ local' = [local EXCEPT ![w] = [l EXCEPT !.pc = "sendReload"]]
           ELSE /\ local' = [local EXCEPT ![w] = [l EXCEPT !.pc = "unsettled"]]
                /\ UNCHANGED invoices
        /\ UNCHANGED <<products, customers, orders, clock, response, requests, audit>>

\* line 477: invoice.reload()
SendInvoiceReload(w) ==
    LET l == local[w]
    IN  /\ l.pc = "sendReload"
        /\ local' = [local EXCEPT ![w] =
                [l EXCEPT !.pc = "sendMessage",
                          !.loaded = invoices[l.id],
                          !.doc = invoices[l.id]]]
        /\ UNCHANGED <<products, customers, orders, invoices, clock, response, requests, audit>>

\* lines 484-496: sendDocumentMessage, whose failure is thrown on to the
\* route's catch, then invoice.status = 'sent'
SendInvoiceMessage(w) ==
    LET l == local[w]
    IN  /\ l.pc = "sendMessage"
        /\ IF l.args.delivered
           THEN /\ local' = [local EXCEPT ![w] =
                        [l EXCEPT !.pc = "sendSave", !.doc.status = "sent"]]
                /\ UNCHANGED response
           ELSE Finish(w, 500)
        /\ UNCHANGED <<products, customers, orders, invoices, clock, requests, audit>>

\* line 497: invoice.save(), and the response of routes/invoices.js line 211
SendInvoiceSave(w) ==
    /\ local[w].pc = "sendSave"
    /\ InvoiceSaveStep(w, 200)
    /\ UNCHANGED <<products, customers, orders, clock, requests, audit>>

(* --------------------------- payment reminder ------------------------- *)
\* router.post('/:id/reminder') of routes/invoices.js, lines 279-293
SendReminderStart(w, args) ==
    /\ Accept(w)
    /\ IF InvoiceFound(args.id, args.user)
       THEN /\ local' = [local EXCEPT ![w] =
                    [Begin(w, "sendReminder", args) EXCEPT
                        !.pc = "reminderMessage", !.id = args.id,
                        !.loaded = invoices[args.id], !.doc = invoices[args.id]]]
            /\ UNCHANGED response
       ELSE Reject(w, "sendReminder", args.id, 404)
    /\ AuditStart(w)
    /\ UNCHANGED <<products, customers, orders, invoices, clock>>

\* lines 295-301: sendPaymentReminder, whose failure goes to the route's
\* catch, then paymentDetails.reminderSentAt
SendReminderMessage(w) ==
    LET l == local[w]
    IN  /\ l.pc = "reminderMessage"
        /\ IF l.args.delivered
           THEN /\ local' = [local EXCEPT ![w] = [l EXCEPT !.pc = "reminderSave"]]
                /\ UNCHANGED response
           ELSE Finish(w, 500)
        /\ UNCHANGED <<products, customers, orders, invoices, clock, requests, audit>>

\* line 302: invoice.save(), and the response
SendReminderSave(w) ==
    /\ local[w].pc = "reminderSave"
    /\ InvoiceSaveStep(w, 200)
    /\ UNCHANGED <<products, customers, orders, clock, requests, audit>>

(* ------------------------------ requests ------------------------------ *)
\* request lines: product 1 is ordered at its catalogue price and tax rate
\* (the line gives none), product 2 with a price, discount and tax rate of
\* the line's own; a quantity of 0 fails the schema, an id of 0 names no product
LineItems ==
    {[product |-> 1, quantity |-> 2, unitPrice |-> 0, discount |-> 0, taxRate |-> 0],
     [product |-> 1, quantity |-> 0, unitPrice |-> 0, discount |-> 0, taxRate |-> 0],
     [product |-> 2, quantity |-> 2, unitPrice |-> 30000, discount |-> 10000, taxRate |-> 10],
     [product |-> MissingId, quantity |-> 2, unitPrice |-> 0, discount |-> 0, taxRate |-> 0]}

\* the item lists of a request; the loop returns at the first line whose
\* product is not found, so such a line is the last of its list
ItemLists ==
    {items \in UNION {[1..n -> LineItems] : n \in 1..MaxItems} :
        \A i \in 1..Len(items) : items[i].product = MissingId => i = Len(items)}

Charges == {[shipping |-> 5000, packaging |-> 0], [shipping |-> 0, packaging |-> 2000]}

CreateOrderRequests ==
    {[user |-> u, customer |-> c, items |-> items, shipping |-> ch.shipping,
      packaging |-> ch.packaging, amountPaid |-> 0] :
        u \in Users, c \in {1, 9}, items \in ItemLists, ch \in Charges}

OrderIds == 1..MaxRequests

\* the statuses requests ask for: a non-terminal one and the three terminal ones
RequestStatuses == {"confirmed", "delivered", "cancelled", "refunded"}

\* the customer message of a request is delivered unless a set says otherwise
TransitionRequests ==
    {[user |-> u, id |-> id, status |-> st, delivered |-> TRUE] :
        u \in Users, id \in OrderIds, st \in RequestStatuses}

\* a body with a status, or a body with a pricing block whose amountDue
\* is the caller's own figure
UpdateBodies ==
    {[status |-> st, hasPricing |-> FALSE, pricing |-> NoDoc] : st \in RequestStatuses}
    \cup
    {[status |-> "", hasPricing |-> TRUE,
      pricing |-> [subtotal |-> 100000, totalDiscount |-> 0, totalTax |-> 0,
                   shipping |-> 0, packaging |-> 0, total |-> 100000,
                   amountPaid |-> 40000, amountDue |-> 0]]}

UpdateOrderRequests ==
    {[user |-> u, id |-> id, body |-> b] :
        u \in Users, id \in OrderIds, b \in UpdateBodies}

CancelOrderRequests ==
    {[user |-> u, id |-> id, delivered |-> TRUE] : u \in Users, id \in OrderIds}

InvoiceIds == 1..MaxRequests

\* the one order the invoice behaviours start from: the scenario of two
\* units of product 1 with 50 shipping
InvoicedOrderRequests ==
    {[user |-> u, customer |-> 1,
      items |-> <<[product |-> 1, quantity |-> 2, unitPrice |-> 0,
                   discount |-> 0, taxRate |-> 0]>>,
      shipping |-> 5000, packaging |-> 0, amountPaid |-> 0] : u \in Users}

\* orders of one unit of product 1, which the stock admits side by side
NumberedOrderRequests ==
    {[user |-> u, customer |-> 1,
      items |-> <<[product |-> 1, quantity |-> 1, unitPrice |-> 0,
                   discount |-> 0, taxRate |-> 0]>>,
      shipping |-> 0, packaging |-> 0, amountPaid |-> 0] : u \in Users}

CreateInvoiceRequests ==
    {[user |-> u, customer |-> c, total |-> 100000, dueIn |-> 30] :
        u \in Users, c \in {1, 9}}

CreateInvoiceFromOrderRequests ==
    {[user |-> u, id |-> id, paymentTerms |-> pt] :
        u \in Users, id \in OrderIds, pt \in {0, 15}}

UpdateInvoiceBodies ==
    {[status |-> "", hasPricing |-> TRUE,
      pricing |-> [subtotal |-> 200000, totalDiscount |-> 0, totalTax |-> 0,
                   shipping |-> 0, total |-> 200000, amountInWords |-> <<>>]],
     [status |-> "sent", hasPricing |-> FALSE, pricing |-> NoDoc]}

UpdateInvoiceRequests ==
    {[user |-> u, id |-> id, body |-> b] :
        u \in Users, id \in InvoiceIds, b \in UpdateInvoiceBodies}

\* updates whose pricing block brings the total to 0
ZeroTotalRequests ==
    {[user |-> u, id |-> id,
      body |-> [status |-> "", hasPricing |-> TRUE,
                pricing |-> [subtotal |-> 0, totalDiscount |-> 0, totalTax |-> 0,
                             shipping |-> 0, total |-> 0, amountInWords |-> <<>>]]] :
        u \in Users, id \in InvoiceIds}

\* amounts the payment route is sent: positive ones, zero and a negative one
PositiveAmounts == {40000, 60000, 100000}

PaymentAmounts == PositiveAmounts \cup {-40000, 0}

PaymentRequests(amounts) ==
    {[user |-> u, id |-> id, amount |-> a, delivered |-> TRUE] :
        u \in Users, id \in InvoiceIds, a \in amounts}

\* the requests that send a customer message, with a send that succeeds and
\* one that fails
Undelivered(reqs) == {[r EXCEPT !.delivered = d] : r \in reqs, d \in BOOLEAN}

\* request lines for the checks on a line: one the stock admits, one that
\* asks for more than the 3 units on hand, one with a negative quantity, one
\* with a negative unit price and one with a tax rate above 100
CheckedLineItems ==
    {[product |-> 1, quantity |-> 2, unitPrice |-> 0, discount |-> 0, taxRate |-> 0],
     [product |-> 1, quantity |-> 5, unitPrice |-> 0, discount |-> 0, taxRate |-> 0],
     [product |-> 1, quantity |-> -1, unitPrice |-> 0, discount |-> 0, taxRate |-> 0],
     [product |-> 2, quantity |-> 1, unitPrice |-> -10000, discount |-> 0, taxRate |-> 0],
     [product |-> 2, quantity |-> 1, unitPrice |-> 0, discount |-> 0, taxRate |-> 150]}

CheckedOrderRequests ==
    {[user |-> u, customer |-> 1, items |-> items, shipping |-> 0,
      packaging |-> 0, amountPaid |-> 0] :
        u \in Users, items \in UNION {[1..n -> CheckedLineItems] : n \in 1..MaxItems}}

\* amounts: rupee parts around every grouping boundary, thousandths below
\* and above every rounding boundary
WordRupees ==
    {0, 1, 10, 19, 20, 21, 99, 100, 101, 999, 1000, 21000, 99999, 100000,
     150075, 9999999, 10000000, 12345678}

WordFractions == {0, 4, 6, 10, 500, 504, 506, 990, 994, 996, 999}

WordAmounts == {[rupees |-> r, thousandths |-> f] : r \in WordRupees, f \in WordFractions}

\* the owners of the store and the customer each of them orders for
Owners == {"u1", "u2"}

CustomerOf(u) == IF u = "u1" THEN 1 ELSE 2

\* orders of one unit of product 1 by either owner
OwnerOrderRequests ==
    {[user |-> u, customer |-> CustomerOf(u),
      items |-> <<[product |-> 1, quantity |-> 1, unitPrice |-> 0,
                   discount |-> 0, taxRate |-> 0]>>,
      shipping |-> 0, packaging |-> 0, amountPaid |-> 0] : u \in Owners}

OwnerInvoiceRequests ==
    {[user |-> u, customer |-> CustomerOf(u), total |-> 100000, dueIn |-> 30] :
        u \in Owners}

\* invoice options with payment terms of 0 and of 15 days, and with none:
\* options.paymentTerms then reads undefined, which || treats as it treats 0
TermsRequests ==
    {[user |-> u, id |-> id, paymentTerms |-> pt, given |-> g] :
        u \in Users, id \in OrderIds, pt \in {0, 15}, g \in BOOLEAN} \
    {[user |-> u, id |-> id, paymentTerms |-> 15, given |-> FALSE] :
        u \in Users, id \in OrderIds}

\* requests to send an invoice or a reminder, with a message that is
\* delivered and one that is not
SendRequests ==
    {[user |-> u, id |-> id, delivered |-> d] :
        u \in Users, id \in InvoiceIds, d \in BOOLEAN}

\* cancellations by either owner
OwnerCancelRequests ==
    {[user |-> u, id |-> id, delivered |-> TRUE] : u \in Owners, id \in OrderIds}

\* request lines of one unit of product 1 with the fields each supplies: a
\* field that is not supplied reads undefined, which || treats as it treats 0
SuppliedLineItems ==
    {[product |-> 1, quantity |-> 1, unitPrice |-> 0, discount |-> 0, taxRate |-> 0,
      supplied |-> {}],
     [product |-> 1, quantity |-> 1, unitPrice |-> 0, discount |-> 0, taxRate |-> 0,
      supplied |-> {"taxRate"}],
     [product |-> 1, quantity |-> 1, unitPrice |-> 0, discount |-> 0, taxRate |-> 0,
      supplied |-> {"unitPrice"}],
     [product |-> 1, quantity |-> 1, unitPrice |-> 30000, discount |-> 0, taxRate |-> 10,
      supplied |-> {"unitPrice", "taxRate"}]}

SuppliedOrderRequests ==
    {[user |-> u, customer |-> 1, items |-> items, shipping |-> 0,
      packaging |-> 0, amountPaid |-> 0] :
        u \in Users, items \in UNION {[1..n -> SuppliedLineItems] : n \in 1..MaxItems}}

\* orders of product 2 alone and of products 1 and 2 together
MixedOrderRequests ==
    {[user |-> u, customer |-> 1, items |-> items, shipping |-> 0,
      packaging |-> 0, amountPaid |-> 0] :
        u \in Users,
        items \in {<<[product |-> 2, quantity |-> 2, unitPrice |-> 0,
                      discount |-> 0, taxRate |-> 0]>>,
                   <<[product |-> 1, quantity |-> 1, unitPrice |-> 0,
                      discount |-> 0, taxRate |-> 0],
                     [product |-> 2, quantity |-> 2, unitPrice |-> 0,
                      discount |-> 0, taxRate |-> 0]>>}}

\* inventory requests: quantities above and below zero
ProductIds == {1, 2}

InventoryRequests ==
    {[user |-> u, id |-> id, operation |-> op, quantity |-> q] :
        u \in Users, id \in ProductIds, op \in {"set", "add", "subtract"},
        q \in {-2, 4}}

\* product updates that name the path inventory.quantity
UpdateProductRequests ==
    {[user |-> u, id |-> id, body |-> [quantity |-> q]] :
        u \in Users, id \in ProductIds, q \in {-2, 4}}

(* --------------------------- specifications --------------------------- *)
Tick ==
    /\ clock < MaxClock
    /\ clock' = clock + 1
    /\ UNCHANGED <<products, customers, orders, invoices, local, response, requests, audit>>

\* the steps a worker takes inside an order handler it has entered
CreateOrderStep(w) ==
    \/ CreateOrderItem(w)
    \/ CreateOrderProductSave(w)
    \/ CreateOrderSave(w)
    \/ CreateOrderInsert(w)
    \/ CreateOrderCustomerSave(w)

OrderStep(w) ==
    \/ CreateOrderStep(w)
    \/ TransitionSave(w)
    \/ UpdateOrderSave(w)
    \/ CancelOrderItem(w)
    \/ CancelOrderProductSave(w)
    \/ CancelOrderSave(w)

\* the steps a worker takes inside an invoice handler it has entered
InvoiceStep(w) ==
    \/ InvoiceSave(w)
    \/ InvoiceInsert(w)
    \/ GeneratePdfFind(w)
    \/ GeneratePdfSave(w)
    \/ RecordPaymentSave(w)

\* the order routes, one request at a time: every handler runs to its
\* response before the next request is accepted
Next ==
    \/ \E args \in CreateOrderRequests : CreateOrderStart(1, args)
    \/ \E args \in TransitionRequests : TransitionStart(1, args)
    \/ \E args \in UpdateOrderRequests : UpdateOrderStart(1, args)
    \/ \E args \in CancelOrderRequests : CancelOrderStart(1, args)
    \/ OrderStep(1)

Spec == Init /\ [][Next]_vars

\* the invoice routes, one request at a time, over the order of the scenario
InvoiceNext ==
    \/ \E args \in InvoicedOrderRequests : CreateOrderStart(1, args)
    \/ \E args \in CreateInvoiceRequests : CreateInvoiceStart(1, args)
    \/ \E args \in CreateInvoiceFromOrderRequests : CreateInvoiceFromOrderStart(1, args)
    \/ \E args \in UpdateInvoiceRequests : UpdateInvoiceStart(1, args)
    \/ \E args \in ZeroTotalRequests : UpdateInvoiceStart(1, args)
    \/ \E args \in PaymentRequests(PaymentAmounts) : RecordPaymentStart(1, args)
    \/ CreateOrderStep(1)
    \/ InvoiceStep(1)

InvoiceSpec == Init /\ [][InvoiceNext]_vars

\* worker w has served no request yet
Fresh(w) == local[w].op = "none"

\* document creation by concurrent requests, one to a worker, while the
\* calendar advances
NumberingNext ==
    \/ Tick
    \/ \E w \in Workers :
        \/ \E args \in NumberedOrderRequests : Fresh(w) /\ CreateOrderStart(w, args)
        \/ \E args \in CreateInvoiceRequests : Fresh(w) /\ CreateInvoiceStart(w, args)
        \/ CreateOrderStep(w)
        \/ InvoiceSave(w)
        \/ InvoiceInsert(w)

NumberingSpec == Init /\ [][NumberingNext]_vars

\* the invoice routes when every payment recorded has a positive amount
SettlementNext ==
    \/ \E args \in InvoicedOrderRequests : CreateOrderStart(1, args)
    \/ \E args \in CreateInvoiceRequests : CreateInvoiceStart(1, args)
    \/ \E args \in CreateInvoiceFromOrderRequests : CreateInvoiceFromOrderStart(1, args)
    \/ \E args \in UpdateInvoiceRequests : UpdateInvoiceStart(1, args)
    \/ \E args \in PaymentRequests(PositiveAmounts) : RecordPaymentStart(1, args)
    \/ CreateOrderStep(1)
    \/ InvoiceStep(1)

SettlementSpec == Init /\ [][SettlementNext]_vars

\* the routes that write the on-hand quantity, one request at a time
InventoryNext ==
    \/ \E args \in InvoicedOrderRequests : CreateOrderStart(1, args)
    \/ \E args \in CancelOrderRequests : CancelOrderStart(1, args)
    \/ \E args \in InventoryRequests : UpdateInventoryStart(1, args)
    \/ \E args \in UpdateProductRequests : UpdateProductStart(1, args)
    \/ CreateOrderStep(1)
    \/ CancelOrderItem(1)
    \/ CancelOrderProductSave(1)
    \/ CancelOrderSave(1)
    \/ UpdateInventorySave(1)

InventorySpec == Init /\ [][InventoryNext]_vars

\* one order creation over the checked lines, against the initial stock
ValidationNext ==
    \/ \E args \in CheckedOrderRequests : Fresh(1) /\ CreateOrderStart(1, args)
    \/ CreateOrderStep(1)

ValidationSpec == Init /\ [][ValidationNext]_vars

\* documents created one after another by two owners while the calendar
\* advances
SequenceNext ==
    \/ Tick
    \/ \E args \in OwnerOrderRequests : CreateOrderStart(1, args)
    \/ \E args \in OwnerInvoiceRequests : CreateInvoiceStart(1, args)
    \/ CreateOrderStep(1)
    \/ InvoiceSave(1)
    \/ InvoiceInsert(1)

SequenceSpec == Init /\ [][SequenceNext]_vars

\* calls of numberToWords over the amounts
WordsNext == \E amount \in WordAmounts : NumberToWordsCall(1, amount)

WordsSpec == Init /\ [][WordsNext]_vars

\* the routes that send a customer message, one request at a time, with
\* sends that succeed and sends that fail
NotificationNext ==
    \/ \E args \in InvoicedOrderRequests : CreateOrderStart(1, args)
    \/ \E args \in Undelivered(TransitionRequests) : TransitionStart(1, args)
    \/ \E args \in Undelivered(CancelOrderRequests) : CancelOrderStart(1, args)
    \/ \E args \in CreateInvoiceFromOrderRequests : CreateInvoiceFromOrderStart(1, args)
    \/ \E args \in Undelivered(PaymentRequests(PositiveAmounts)) : RecordPaymentStart(1, args)
    \/ CreateOrderStep(1)
    \/ TransitionSave(1)
    \/ CancelOrderItem(1)
    \/ CancelOrderProductSave(1)
    \/ CancelOrderSave(1)
    \/ InvoiceSave(1)
    \/ InvoiceInsert(1)
    \/ RecordPaymentSave(1)

NotificationSpec == Init /\ [][NotificationNext]_vars

\* the inventory operations over a store whose product 2 is not tracked
UntrackedNext ==
    \/ \E args \in MixedOrderRequests : CreateOrderStart(1, args)
    \/ \E args \in CancelOrderRequests : CancelOrderStart(1, args)
    \/ \E args \in InventoryRequests : UpdateInventoryStart(1, args)
    \/ CreateOrderStep(1)
    \/ CancelOrderItem(1)
    \/ CancelOrderProductSave(1)
    \/ CancelOrderSave(1)
    \/ UpdateInventorySave(1)

UntrackedSpec == UntrackedInit /\ [][UntrackedNext]_vars

\* invoices made from orders that are updated before and after
InvoiceCopyNext ==
    \/ \E args \in InvoicedOrderRequests : CreateOrderStart(1, args)
    \/ \E args \in UpdateOrderRequests : UpdateOrderStart(1, args)
    \/ \E args \in TermsRequests : CreateInvoiceFromOrderStart(1, args)
    \/ CreateOrderStep(1)
    \/ UpdateOrderSave(1)
    \/ InvoiceSave(1)
    \/ InvoiceInsert(1)

InvoiceCopySpec == Init /\ [][InvoiceCopyNext]_vars

\* orders created and cancelled by concurrent requests
ConcurrentCancelNext ==
    \E w \in Workers :
        \/ \E args \in InvoicedOrderRequests : CreateOrderStart(w, args)
        \/ \E args \in CancelOrderRequests : CancelOrderStart(w, args)
        \/ CreateOrderStep(w)
        \/ CancelOrderItem(w)
        \/ CancelOrderProductSave(w)
        \/ CancelOrderSave(w)

ConcurrentCancelSpec == Init /\ [][ConcurrentCancelNext]_vars

\* the order routes over orders that the stock admits, one request at a time
LifecycleNext ==
    \/ \E args \in InvoicedOrderRequests : CreateOrderStart(1, args)
    \/ \E args \in TransitionRequests : TransitionStart(1, args)
    \/ \E args \in UpdateOrderRequests : UpdateOrderStart(1, args)
    \/ \E args \in CancelOrderRequests : CancelOrderStart(1, args)
    \/ OrderStep(1)

LifecycleSpec == Init /\ [][LifecycleNext]_vars

\* invoices created and paid by concurrent requests
ConcurrentPaymentNext ==
    \E w \in Workers :
        \/ \E args \in CreateInvoiceRequests : CreateInvoiceStart(w, args)
        \/ \E args \in PaymentRequests(PositiveAmounts) : RecordPaymentStart(w, args)
        \/ InvoiceSave(w)
        \/ InvoiceInsert(w)
        \/ RecordPaymentSave(w)

ConcurrentPaymentSpec == Init /\ [][ConcurrentPaymentNext]_vars

\* invoices that are paid, sent and reminded of, one request at a time
PaidNext ==
    \/ \E args \in CreateInvoiceRequests : CreateInvoiceStart(1, args)
    \/ \E args \in PaymentRequests(PositiveAmounts) : RecordPaymentStart(1, args)
    \/ \E args \in SendRequests : SendInvoiceStart(1, args)
    \/ \E args \in SendRequests : SendReminderStart(1, args)
    \/ InvoiceSave(1)
    \/ InvoiceInsert(1)
    \/ RecordPaymentSave(1)
    \/ SendInvoiceFind(1)
    \/ SendInvoiceGenerate(1)
    \/ SendInvoiceGenerateSave(1)
    \/ SendInvoiceReload(1)
    \/ SendInvoiceMessage(1)
    \/ SendInvoiceSave(1)
    \/ SendReminderMessage(1)
    \/ SendReminderSave(1)

PaidSpec == Init /\ [][PaidNext]_vars

\* orders created and cancelled by two owners, one request at a time; both
\* products belong to owner u1
OwnerNext ==
    \/ \E args \in OwnerOrderRequests : CreateOrderStart(1, args)
    \/ \E args \in OwnerCancelRequests : CancelOrderStart(1, args)
    \/ CreateOrderStep(1)
    \/ CancelOrderItem(1)
    \/ CancelOrderProductSave(1)
    \/ CancelOrderSave(1)

OwnerSpec == Init /\ [][OwnerNext]_vars

\* one order creation over lines that supply a price and a tax rate or not
SuppliedNext ==
    \/ \E args \in SuppliedOrderRequests : Fresh(1) /\ CreateOrderStart(1, args)
    \/ CreateOrderStep(1)

SuppliedSpec == Init /\ [][SuppliedNext]_vars

(* ============================ properties ============================== *)

\* the step in which worker w accepts a request of kind op
Accepts(w, op) ==
    /\ requests' = requests + 1
    /\ audit'.acceptor = w
    /\ local'[w].op = op

\* the step in which worker w answers a request of kind op
Answers(w, op) ==
    /\ local[w].op = op
    /\ local[w].pc # "idle"
    /\ local'[w].pc = "idle"

\* the request of kind op that worker w served last has been answered with code
Answered(w, op, code) ==
    /\ local[w].pc = "idle"
    /\ local[w].op = op
    /\ response[w] = code

(* C1: under any interleaving of concurrent createOrder requests of one     *)
(* owner, and likewise of invoice creations, no two persisted documents of  *)
(* the same owner and kind carry the same document number.                  *)
C1_NumbersDistinct ==
    /\ \A i, j \in 1..Len(orders) :
        (i # j /\ orders[i].user = orders[j].user)
            => orders[i].orderNumber # orders[j].orderNumber
    /\ \A i, j \in 1..Len(invoices) :
        (i # j /\ invoices[i].user = invoices[j].user)
            => invoices[i].invoiceNumber # invoices[j].invoiceNumber

\* two requests of one owner counted the same documents: one has inserted
\* its order, the other is about to insert under the same number
C1_Witness ==
    \E w \in Workers : \E i \in 1..Len(orders) :
        /\ local[w].pc = "createOrderInsert"
        /\ local[w].doc.user = orders[i].user
        /\ local[w].doc.orderNumber = orders[i].orderNumber

(* C2: a createOrder that fails after it has started on its line items      *)
(* leaves every product's on-hand quantity as it was before the call.       *)
C2_FailedCreateKeepsStock ==
    [][\A w \in Workers :
        (Answers(w, "createOrder") /\ response'[w] >= 400)
            => Quantities(products') = audit.before[w]]_vars

(* C3: a successful createOrder followed by a successful cancelOrder of     *)
(* that order, with no other write to the products in between, leaves every *)
(* tracked product's on-hand quantity at its value before the create.       *)
C3_CancelRestoresStock ==
    \A w \in Workers :
        (/\ Answered(w, "cancelOrder", 200)
         /\ local[w].id \in 1..Len(orders)
         /\ audit.untouched[local[w].id]
         /\ \A i \in 1..Len(orders[local[w].id].items) :
                products[orders[local[w].id].items[i].product].trackInventory)
            => Quantities(products) = audit.reservedFrom[local[w].id]

C3_Witness ==
    \E w \in Workers :
        /\ Answered(w, "cancelOrder", 200)
        /\ local[w].id \in 1..Len(orders)
        /\ audit.untouched[local[w].id]
        /\ Len(orders[local[w].id].items) = 2
        /\ orders[local[w].id].items[1].product # orders[local[w].id].items[2].product
        /\ orders[local[w].id].status = "cancelled"

(* C4: cancelOrder on an order that is delivered or cancelled is answered   *)
(* with an error and changes neither the orders nor any product quantity;   *)
(* a second cancelOrder of the same order is rejected and restores nothing. *)
C4_CancelOfTerminalRejected ==
    [][\A w \in Workers :
        (/\ Accepts(w, "cancelOrder")
         /\ local'[w].id \in 1..Len(orders)
         /\ orders[local'[w].id].status \in {"delivered", "cancelled"})
            => /\ local'[w].pc = "idle"
               /\ response'[w] >= 400
               /\ orders' = orders
               /\ products' = products]_vars

C4_Witness ==
    \E w \in Workers :
        /\ Answered(w, "cancelOrder", 400)
        /\ local[w].id \in 1..Len(orders)
        /\ orders[local[w].id].status = "cancelled"
        /\ orders[local[w].id].cancelledAt >= 0
        /\ Quantities(products) = audit.reservedFrom[local[w].id]

(* C5: transitionOrderStatus on an order whose status is terminal is        *)
(* rejected with an error and changes nothing, and the status of an order   *)
(* that has reached a terminal status never changes again.                  *)
C5_TerminalStatusIsFinal ==
    [][/\ \A w \in Workers :
            (/\ Answers(w, "transitionOrderStatus")
             /\ local[w].loaded.status \in TerminalStatuses)
                => (response'[w] >= 400 /\ orders' = orders)
       /\ \A i \in 1..Len(orders) :
            orders[i].status \in TerminalStatuses
                => orders'[i].status = orders[i].status]_vars

(* C6: in every persisted invoice, paymentDetails.status is 'paid' iff      *)
(* paidAmount >= pricing.total and 'partial' iff 0 < paidAmount < total;    *)
(* otherwise it is 'pending' or 'overdue'.                                  *)
C6_PaymentStatusInvariant ==
    \A i \in 1..Len(invoices) :
        LET pd == invoices[i].paymentDetails
            total == invoices[i].pricing.total
        IN  /\ pd.status = "paid" <=> pd.paidAmount >= total
            /\ pd.status = "partial" <=> (0 < pd.paidAmount /\ pd.paidAmount < total)
            /\ pd.status \in {"paid", "partial", "pending", "overdue"}

\* pending -> partial -> paid
StatusRank(status) ==
    CASE status = "pending" -> 0
      [] status = "partial" -> 1
      [] status = "paid" -> 2
      [] OTHER -> 0

(* C7: along recordPayment calls on an invoice, paymentDetails.status only  *)
(* moves forward in pending -> partial -> paid; a payment equal to the      *)
(* remaining amount due leaves the status paid with paidDate set.           *)
C7_PaymentStatusMonotone ==
    [][\A w \in Workers :
        Answers(w, "recordPayment") =>
            /\ \A i \in 1..Len(invoices) :
                StatusRank(invoices'[i].paymentDetails.status)
                    >= StatusRank(invoices[i].paymentDetails.status)
            /\ (local[w].args.amount =
                    local[w].loaded.pricing.total - local[w].loaded.paymentDetails.paidAmount)
                => /\ invoices'[local[w].id].paymentDetails.status = "paid"
                   /\ invoices'[local[w].id].paymentDetails.paidDate >= 0]_vars

(* C8: recordPayment with a zero or negative amount is rejected with a      *)
(* validation error and leaves the invoice unchanged.                       *)
C8_NonPositivePaymentRejected ==
    [][\A w \in Workers :
        (Answers(w, "recordPayment") /\ local[w].args.amount <= 0)
            => (response'[w] >= 400 /\ invoices' = invoices)]_vars

(* C9: in every persisted order, pricing.amountDue equals pricing.total     *)
(* minus pricing.amountPaid, also for orders with a packaging charge.       *)
C9_AmountDue ==
    \A i \in 1..Len(orders) :
        orders[i].pricing.amountDue = orders[i].pricing.total - orders[i].pricing.amountPaid

C9_Witness ==
    \E i, j \in 1..Len(orders) :
        /\ orders[i].pricing.packaging # 0
        /\ orders[j].pricing.amountPaid # 0

\* a line total is the taxable amount plus that amount times taxRate/100
LinePriced(line) ==
    LET taxable == line.unitPrice * line.quantity - line.discount
    IN  line.total * 100 = taxable * 100 + taxable * line.taxRate

OrderPriced(o) ==
    /\ \A i \in 1..Len(o.items) : LinePriced(o.items[i])
    /\ o.pricing.subtotal = SumSeq([i \in 1..Len(o.items) |-> o.items[i].total])
    /\ o.pricing.total = o.pricing.subtotal + o.pricing.shipping + o.pricing.packaging
    /\ (/\ Len(o.items) = 1
        /\ o.items[1].quantity = 2
        /\ o.items[1].unitPrice = 50000
        /\ o.items[1].taxRate = 18
        /\ o.items[1].discount = 0)
            => /\ o.items[1].total = 118000
               /\ (o.pricing.shipping = 5000 /\ o.pricing.packaging = 0)
                    => o.pricing.total = 123000

(* C10: every order createOrder persists has line totals of                 *)
(* (unitPrice*quantity - discount) plus that amount times taxRate/100, a    *)
(* subtotal that is the sum of the line totals and a total of subtotal +    *)
(* shipping + packaging (2 units at 500 with 18% tax: 1180, 1230 with 50    *)
(* shipping).                                                               *)
C10_OrderPricing ==
    [][Len(orders') > Len(orders) => OrderPriced(orders'[Len(orders')])]_vars

C10_Witness ==
    \E i, j \in 1..Len(orders) :
        /\ Len(orders[i].items) = 1
        /\ orders[i].items[1].total = 118000
        /\ orders[i].pricing.total = 123000
        /\ Len(orders[j].items) = 2
        /\ orders[j].items[1].discount > 0
        /\ orders[j].pricing.packaging > 0
        /\ OrderPriced(orders[j])

(* C11: in every reachable state, every product that tracks its inventory  *)
(* has an on-hand quantity of at least 0, whatever createOrder,             *)
(* cancelOrder, inventory and product update requests have run.             *)
C11_QuantityNonNegative ==
    \A pid \in DOMAIN products :
        products[pid].trackInventory => products[pid].quantity >= 0

\* line i of the request asks for more of a tracked product than was on
\* hand when the request was accepted
ExceedsStock(w, i) ==
    LET item == local[w].args.items[i]
    IN  /\ item.product \in DOMAIN products
        /\ products[item.product].trackInventory
        /\ item.quantity > audit.before[w][item.product]

(* C12: a createOrder with a line whose quantity exceeds the on-hand        *)
(* quantity of a tracked product is answered with an error, persists no     *)
(* order and leaves that product's quantity as it was.                      *)
C12_InsufficientStockRejected ==
    [][\A w \in Workers :
        Answers(w, "createOrder") =>
            \A i \in 1..Len(local[w].args.items) :
                ExceedsStock(w, i) =>
                    /\ response'[w] >= 400
                    /\ orders' = orders
                    /\ products'[local[w].args.items[i].product].quantity
                            = audit.before[w][local[w].args.items[i].product]]_vars

\* the line has a negative quantity, a negative unit price or a tax rate
\* outside 0..100
BadLine(item) ==
    \/ item.quantity < 0
    \/ item.unitPrice < 0
    \/ item.taxRate < 0
    \/ item.taxRate > 100

(* C18: a createOrder with a line of negative quantity, negative unit price *)
(* or tax rate outside 0..100 is answered with an error, persists no order  *)
(* and leaves every product quantity and the customer counters unchanged.   *)
C18_BadLineRejected ==
    [][\A w \in Workers :
        (/\ Answers(w, "createOrder")
         /\ \E i \in 1..Len(local[w].args.items) : BadLine(local[w].args.items[i]))
            => /\ response'[w] >= 400
               /\ orders' = orders
               /\ customers' = customers
               /\ Quantities(products') = audit.before[w]]_vars

\* the units of product pid that the lines of the persisted orders reserve
Reserved(pid) ==
    SumSeq([o \in 1..Len(orders) |->
        SumSeq([i \in 1..Len(orders[o].items) |->
            IF orders[o].items[i].product = pid
            THEN orders[o].items[i].quantity ELSE 0])])

(* C13: when concurrent createOrder requests have all succeeded, at least   *)
(* two of them, every product's on-hand quantity is its initial quantity    *)
(* minus the quantities the persisted orders reserve: no update is lost.    *)
C13_ReservationsSerialize ==
    (/\ \E w1, w2 \in Workers :
            /\ w1 # w2
            /\ Answered(w1, "createOrder", 201)
            /\ Answered(w2, "createOrder", 201)
     /\ \A w \in Workers :
            local[w].op = "createOrder" => Answered(w, "createOrder", 201))
        => \A pid \in DOMAIN products :
                products[pid].quantity = InitProducts[pid].quantity - Reserved(pid)

\* the number a digit string denotes
RECURSIVE DigitsValue(_)
DigitsValue(digits) ==
    IF digits = <<>> THEN 0
    ELSE 10 * DigitsValue(SubSeq(digits, 1, Len(digits) - 1)) + digits[Len(digits)]

\* document i of the collection is the k-th of its owner
RankOf(coll, i) == Cardinality({j \in 1..i : coll[j].user = coll[i].user})

\* the number is kind/period/NNNN with NNNN the 4 digits of k
Numbered(number, kind, k) ==
    /\ Len(number) = 3
    /\ number[1] = kind
    /\ number[2] \in 0..clock
    /\ Len(number[3]) = 4
    /\ DigitsValue(number[3]) = k

(* C14: of the documents created one after another, the k-th order of an   *)
(* owner is numbered ORD/period/NNNN and the k-th invoice INV/period/NNNN   *)
(* with NNNN the four digits of k, whatever the period of its creation.    *)
C14_SequentialNumbers ==
    /\ \A i \in 1..Len(orders) :
            Numbered(orders[i].orderNumber, "ORD", RankOf(orders, i))
    /\ \A i \in 1..Len(invoices) :
            Numbered(invoices[i].invoiceNumber, "INV", RankOf(invoices, i))

\* an owner's second order and second invoice, created in a later period
\* than the first
C14_Witness ==
    /\ \E i, j \in 1..Len(orders) :
            /\ i < j
            /\ orders[i].user = orders[j].user
            /\ orders[i].orderNumber[2] < orders[j].orderNumber[2]
            /\ orders[j].orderNumber[3] = <<0, 0, 0, 2>>
    /\ \E i \in 1..Len(invoices) : invoices[i].invoiceNumber[3] = <<0, 0, 0, 1>>

\* no document of the owner of doc carries the number
FreeForOwner(coll, user, number, field) ==
    \A i \in 1..Len(coll) : coll[i].user = user => coll[i][field] # number

(* C15: numbering of different owners is independent: the insert of an     *)
(* order or invoice whose number no document of the same owner carries     *)
(* succeeds, whatever numbers other owners' documents carry.               *)
C15_OwnersIndependent ==
    [][\A w \in Workers :
        /\ (/\ local[w].pc = "createOrderInsert"
            /\ local'[w].pc # "createOrderInsert"
            /\ FreeForOwner(orders, local[w].doc.user, local[w].doc.orderNumber,
                            "orderNumber"))
                => orders' = Append(orders, local[w].doc)
        /\ (/\ local[w].pc = "invoiceInsert"
            /\ local'[w].pc # "invoiceInsert"
            /\ FreeForOwner(invoices, local[w].doc.user, local[w].doc.invoiceNumber,
                            "invoiceNumber"))
                => invoices' = Append(invoices, local[w].doc)]_vars

(* C16: a numbering collision between concurrent creations is retried       *)
(* inside the request: a createOrder that has reached its insert is never   *)
(* answered with an error.                                                  *)
C16_CollisionRetried ==
    [][\A w \in Workers :
        (Answers(w, "createOrder") /\ local[w].pc = "createOrderInsert")
            => response'[w] < 400]_vars

\* the persisted orders of customer c
OrdersOf(c) == {o \in 1..Len(orders) : orders[o].customer = c}

\* the sum of the totals of the persisted orders of customer c
SpentBy(c) ==
    SumSeq([o \in 1..Len(orders) |->
        IF orders[o].customer = c THEN orders[o].pricing.total ELSE 0])

(* C17: once every createOrder request has been answered with success,     *)
(* concurrent ones for one customer included, the customer's totalOrders   *)
(* is the number of its orders, totalSpent the sum of their totals and     *)
(* averageOrderValue their quotient when totalOrders > 0.                  *)
C17_CustomerCounters ==
    (\A w \in Workers :
        /\ local[w].pc = "idle"
        /\ local[w].op = "createOrder" => response[w] = 201)
        => \A c \in DOMAIN customers :
            /\ customers[c].totalOrders = Cardinality(OrdersOf(c))
            /\ customers[c].totalSpent = SpentBy(c)
            /\ customers[c].totalOrders > 0 =>
                    customers[c].averageOrderValue[1] * customers[c].totalOrders
                        = customers[c].totalSpent * customers[c].averageOrderValue[2]

(* C19: in every persisted invoice, once the requests in flight have been  *)
(* answered, pricing.amountInWords is the words rendering of the current    *)
(* pricing.total, also after an update of the total and for a total of 0.  *)
C19_AmountInWordsCurrent ==
    (\A w \in Workers : local[w].pc = "idle")
        => \A i \in 1..Len(invoices) :
                invoices[i].pricing.amountInWords
                    = NumberToWords(Thousandths(invoices[i].pricing.total))

\* the position of the first occurrence of word in ws, or 0
Position(ws, word) ==
    IF \E i \in 1..Len(ws) : ws[i] = word
    THEN CHOOSE i \in 1..Len(ws) : ws[i] = word /\ \A j \in 1..(i - 1) : ws[j] # word
    ELSE 0

\* the number a word of ones or tens denotes
WordValue(word) ==
    IF \E i \in 1..Len(Ones) : Ones[i] = word
    THEN CHOOSE i \in 1..Len(Ones) : Ones[i] = word
    ELSE IF \E i \in 2..Len(Tens) : Tens[i] = word
    THEN 10 * (CHOOSE i \in 2..Len(Tens) : Tens[i] = word)
    ELSE 0

\* the number a phrase denotes in the Indian grouping
RECURSIVE WordsValue(_)
WordsValue(ws) ==
    LET Split(at, unit) ==
            WordsValue(SubSeq(ws, 1, at - 1)) * unit + WordsValue(SubSeq(ws, at + 1, Len(ws)))
    IN  IF ws = <<>> THEN 0
        ELSE IF Position(ws, "Crore") > 0 THEN Split(Position(ws, "Crore"), 10000000)
        ELSE IF Position(ws, "Lakh") > 0 THEN Split(Position(ws, "Lakh"), 100000)
        ELSE IF Position(ws, "Thousand") > 0 THEN Split(Position(ws, "Thousand"), 1000)
        ELSE IF Position(ws, "Hundred") > 0 THEN Split(Position(ws, "Hundred"), 100)
        ELSE WordValue(Head(ws)) + WordsValue(Tail(ws))

\* the words before "Rupees", and those between "and" and "Paise"
RupeeWords(ws) == SubSeq(ws, 1, Position(ws, "Rupees") - 1)

PaiseWords(ws) == SubSeq(ws, Position(ws, "and") + 1, Position(ws, "Paise") - 1)

(* C20: numberToWords renders 150075.50 as "One Lakh Fifty Thousand        *)
(* Seventy Five Rupees and Fifty Paise", and for every amount its rupee    *)
(* words denote floor(amount) and its paise words are omitted or denote a  *)
(* value in 1..99.                                                         *)
C20_NumberToWords ==
    \A w \in Workers :
        Answered(w, "numberToWords", response[w]) =>
            LET amount == local[w].args.amount
                ws == local[w].doc.words
            IN  /\ amount = [rupees |-> 150075, thousandths |-> 500] =>
                    ws = <<"One", "Lakh", "Fifty", "Thousand", "Seventy", "Five",
                           "Rupees", "and", "Fifty", "Paise">>
                /\ Position(ws, "Rupees") > 0
                /\ WordsValue(RupeeWords(ws)) = amount.rupees
                /\ \/ Position(ws, "Paise") = 0 /\ Len(ws) = Position(ws, "Rupees")
                   \/ /\ Position(ws, "and") = Position(ws, "Rupees") + 1
                      /\ Position(ws, "Paise") = Len(ws)
                      /\ WordsValue(PaiseWords(ws)) \in 1..99

(* C21: every step that changes the status of an order appends exactly one *)
(* tracking-history entry carrying the new status, and a step that leaves  *)
(* the status as it was appends none.                                      *)
C21_HistoryFollowsStatus ==
    [][\A i \in 1..Len(orders) :
        IF orders'[i].status # orders[i].status
        THEN /\ Len(orders'[i].history) = Len(orders[i].history) + 1
             /\ SubSeq(orders'[i].history, 1, Len(orders[i].history)) = orders[i].history
             /\ orders'[i].history[Len(orders'[i].history)].status = orders'[i].status
        ELSE orders'[i].history = orders[i].history]_vars

\* the step in which worker w answers a request of kind op whose document
\* was saved and whose customer message was not delivered
AnswersUndelivered(w, op) ==
    /\ Answers(w, op)
    /\ local[w].pc \in {"transitionSave", "cancelSave", "paymentSave"}
    /\ ~local[w].args.delivered

(* C22: the outcome of transitionOrderStatus, cancelOrder and recordPayment *)
(* does not depend on the notification: when the send fails the request is  *)
(* still answered with success, the new order status or the payment is      *)
(* persisted as it is when the send succeeds, and no product quantity is    *)
(* rolled back.                                                             *)
C22_NotificationSwallowed ==
    [][\A w \in Workers :
        /\ (/\ AnswersUndelivered(w, "transitionOrderStatus")
            /\ OrderValid(AmountDueHook(local[w].doc)))
           => /\ response'[w] = 200
              /\ orders'[local[w].id].status = local[w].doc.status
              /\ products' = products
        /\ (/\ AnswersUndelivered(w, "cancelOrder")
            /\ OrderValid(AmountDueHook(local[w].doc)))
           => /\ response'[w] = 200
              /\ orders'[local[w].id].status = "cancelled"
              /\ products' = products
        /\ (/\ AnswersUndelivered(w, "recordPayment")
            /\ InvoiceValid(AmountInWordsHook(local[w].doc)))
           => /\ response'[w] = 200
              /\ invoices'[local[w].id].paymentDetails.payments
                    = invoices[local[w].id].paymentDetails.payments \o local[w].pushed
              /\ invoices'[local[w].id].paymentDetails.paidAmount
                    = local[w].doc.paymentDetails.paidAmount]_vars

\* a cancellation whose message failed has been answered with success; the
\* order is cancelled and its units are back on the shelf
C22_Witness ==
    \E w \in Workers :
        /\ Answered(w, "cancelOrder", 200)
        /\ ~audit.delivered
        /\ Len(orders) >= 1
        /\ orders[1].status = "cancelled"
        /\ products[1].quantity = InitProducts[1].quantity

(* C23: every inventory operation (the reserve of createOrder, the restore  *)
(* of cancelOrder, and set/add/subtract of the inventory update) leaves the *)
(* on-hand quantity of a product with trackInventory = false unchanged.     *)
C23_UntrackedUnchanged ==
    [][\A pid \in DOMAIN products :
        ~products[pid].trackInventory
            => products'[pid].quantity = products[pid].quantity]_vars

\* invoice line and order line agree on quantity, price, discount, tax and total
SameLine(il, ol) ==
    /\ il.quantity = ol.quantity
    /\ il.unitPrice = ol.unitPrice
    /\ il.discount = ol.discount
    /\ il.taxRate = ol.taxRate
    /\ il.taxAmount = ol.taxAmount
    /\ il.total = ol.total

\* invoice inv is the copy of order o made under the options of request args
CopyOf(inv, o, args) ==
    /\ Len(inv.items) = Len(o.items)
    /\ \A i \in 1..Len(o.items) : SameLine(inv.items[i], o.items[i])
    /\ inv.pricing.total = o.pricing.total
    /\ inv.paymentDetails.status = "pending"
    /\ inv.paymentDetails.paidAmount = 0
    /\ inv.dueDate = inv.issueDate + (IF args.given THEN args.paymentTerms ELSE 30)

(* C24: createInvoiceFromOrder produces an invoice whose lines copy the     *)
(* order's lines, whose pricing.total is the order's, whose payment status  *)
(* is pending with nothing paid, and whose due date is the issue date plus  *)
(* the payment-terms days (30 when none is given); a later change to the    *)
(* order does not change the invoice.                                       *)
C24_InvoiceCopiesOrder ==
    [][/\ \A w \in Workers :
            (/\ Answers(w, "createInvoiceFromOrder")
             /\ Len(invoices') = Len(invoices) + 1)
                => CopyOf(invoices'[Len(invoices')], orders[local[w].args.id], local[w].args)
       /\ orders' # orders => invoices' = invoices]_vars

(* C25: for any interleaving of two concurrent cancelOrder requests on the  *)
(* same order the tracked products are restored at most once: where orders  *)
(* are only created and cancelled, no product ever has more units on hand   *)
(* than the store started with.                                             *)
C25_RestoredOnce ==
    \A pid \in DOMAIN products : products[pid].quantity <= InitProducts[pid].quantity

\* the units of product pid held by the lines of order o
HeldBy(o, pid) ==
    SumSeq([i \in 1..Len(o.items) |->
                IF o.items[i].product = pid THEN o.items[i].quantity ELSE 0])

\* the units of product pid held by the orders that are not cancelled
Held(pid) ==
    SumSeq([o \in 1..Len(orders) |->
                IF orders[o].status # "cancelled" THEN HeldBy(orders[o], pid) ELSE 0])

(* C26: stock is conserved across the order lifecycle: whenever no request  *)
(* is in progress, the on-hand quantity of each tracked product plus the    *)
(* units held by its lines in non-cancelled orders equals the initial       *)
(* quantity (no inventory update is made here), so an order cancelled by    *)
(* cancelOrder, transitionOrderStatus or updateOrder has had its units      *)
(* restored.                                                                *)
C26_StockConserved ==
    (\A w \in Workers : local[w].pc = "idle")
        => \A pid \in DOMAIN products :
            products[pid].trackInventory
                => products[pid].quantity + Held(pid) = InitProducts[pid].quantity

\* the sum of the amounts of the payment records of invoice inv
PaymentsTotal(inv) ==
    SumSeq([k \in 1..Len(inv.paymentDetails.payments) |->
                inv.paymentDetails.payments[k].amount])

(* C27: in every persisted invoice state paymentDetails.paidAmount equals   *)
(* the sum of the amounts of the records in paymentDetails.payments, for    *)
(* any sequence and any interleaving of concurrent recordPayment requests   *)
(* on the same invoice.                                                     *)
C27_PaidAmountIsSum ==
    \A i \in 1..Len(invoices) :
        invoices[i].paymentDetails.paidAmount = PaymentsTotal(invoices[i])

(* C28: once an invoice's status is 'paid' it stays 'paid': sending the     *)
(* invoice, sending a reminder, generating the PDF or recording another     *)
(* payment never sets invoice.status to another value, so invoice.status is *)
(* 'paid' whenever paymentDetails.status is 'paid'.                         *)
C28_PaidStaysPaid ==
    [][\A i \in 1..Len(invoices) :
        /\ invoices[i].status = "paid" => invoices'[i].status = "paid"
        /\ invoices'[i].paymentDetails.status = "paid" => invoices'[i].status = "paid"]_vars

\* the createOrder request of worker w has a line whose product exists and
\* belongs to another owner
HasForeignLine(w) ==
    \E i \in 1..Len(local[w].args.items) :
        LET pid == local[w].args.items[i].product
        IN  pid \in DOMAIN products /\ products[pid].user # local[w].args.user

(* C29: createOrder only reads and reserves products of the requesting      *)
(* owner: a request with a line that references another owner's product is  *)
(* answered 400 as not found, and no step of an order operation of one      *)
(* owner changes the on-hand quantity of a product of another owner.        *)
C29_OwnProductsOnly ==
    [][\A w \in Workers :
        /\ (Answers(w, "createOrder") /\ HasForeignLine(w)) => response'[w] = 400
        /\ (local[w].pc # "idle" /\ local[w].op \in {"createOrder", "cancelOrder"})
            => \A pid \in DOMAIN products :
                products[pid].user # local[w].args.user
                    => products'[pid].quantity = products[pid].quantity]_vars

\* the stored line carries the unit price and the tax rate the request line
\* supplies
AsSupplied(stored, item) ==
    /\ "unitPrice" \in item.supplied => stored.unitPrice = item.unitPrice
    /\ "taxRate" \in item.supplied => stored.taxRate = item.taxRate

(* C30: a line's caller-supplied unit price and tax rate are the ones used  *)
(* for its pricing whenever they are supplied, an explicit 0 included: the  *)
(* order createOrder inserts carries, on every line, the unit price and the *)
(* tax rate its request line supplies, not the product's.                   *)
C30_SuppliedValuesUsed ==
    [][\A w \in Workers :
        (local[w].pc = "createOrderInsert" /\ Len(orders') = Len(orders) + 1)
            => \A i \in 1..Len(local[w].args.items) :
                AsSupplied(orders'[Len(orders')].items[i], local[w].args.items[i])]_vars

====
